---- MODULE Spec2Model ----
(***************************************************************************)
(* A model of schengen.py: the user and presence tables, the queries over  *)
(* them (present, get_start, presence_count_180, presence_180), the search *)
(* for the arrival date of a new trip (find_start_date), add_trip,         *)
(* get_or_add_user and the command main.                                   *)
(*                                                                         *)
(* A date is the number of days since an arbitrary day 0, so that adding a *)
(* timedelta is integer addition.  The presence table has no uniqueness    *)
(* constraint on (user_id, date), so it is a bag of rows; its id column is *)
(* read by nothing and is left out.                                        *)
(***************************************************************************)
EXTENDS Integers, Sequences, FiniteSets, Bags, TLC

VARIABLES user, presence, pc, frame, last

vars == <<user, presence, pc, frame, last>>

\* ------------------------------------------------------------------------
\* Program constants.

MAX_DURATION_180 == 90

MAX_DURATION_180_DAYS == MAX_DURATION_180

ONE_DAY == 1

\* ------------------------------------------------------------------------
\* Bounds of the model.

\* add_trip is called only while the presence table would stay within
\* MaxRows rows.
MaxRows == 130

\* The dates that arrive as arguments are multiples of DateStep.
DateStep == 29

\* The arrival of a recorded trip is one of 0, DateStep, .., MaxArrival * DateStep.
MaxArrival == 2

\* ------------------------------------------------------------------------
\* Python's None, and a value that is not None.

None == [none |-> TRUE]

Some(v) == [some |-> v]

\* F of the value of v, with v evaluated once.
With(v, F(_)) == CHOOSE r \in {F(x) : x \in {v}} : TRUE

\* ------------------------------------------------------------------------
\* The queries.

\* SELECT ... FROM presence WHERE W: the rows of P that satisfy W, as a bag.
Where(P, W(_)) == [r \in {x \in DOMAIN P : W(x)} |-> P[r]]

\* SELECT count(date): the number of rows of a result.
count_1(P) == BagCardinality(P)

present(P, u, at) ==
    count_1(Where(P, LAMBDA r : r.date = at /\ r.user_id = u.id)) > 0

\* The first row of the user's rows by descending date, or None.
get_start(P, u) ==
    LET rows == Where(P, LAMBDA r : r.user_id = u.id)
    IN  IF DOMAIN rows = {}
        THEN None
        ELSE CHOOSE r \in DOMAIN rows : \A q \in DOMAIN rows : q.date <= r.date

\* presence_count_180 with the first day of the window left out.
presence_count_180_open(P, u, at) ==
    LET most_recent_date_180 == at - 179
    IN  count_1(Where(P, LAMBDA r : /\ r.date > most_recent_date_180
                                    /\ r.date <= at
                                    /\ r.user_id = u.id))

presence_count_180(P, u, at) ==
    LET most_recent_date_180 == at - 179
    IN  count_1(Where(P, LAMBDA r : /\ r.date >= most_recent_date_180
                                    /\ r.date <= at
                                    /\ r.user_id = u.id))

\* presence_180.  The loop takes the rows of the window in date order, gives
\* them the numbers 1, 2, .. (days) and stores each number under the row's
\* date; the keys of the OrderedDict stay in the order of their first
\* insertion, and a key stored again keeps its place and takes the new number.
\* numbered(rows, u, lo, hi) is the loop over the rows dated lo .. hi: the
\* items stored and the number of rows taken.  The rows of lo .. hi are those
\* of lo .. mid followed by those of mid + 1 .. hi, whose numbers go on from
\* the count reached at mid.
numbered_join(older, newer) ==
    [items |-> older.items \o
               [i \in 1..Len(newer.items) |->
                  <<newer.items[i][1], newer.items[i][2] + older.days>>],
     days |-> older.days + newer.days]

RECURSIVE numbered(_, _, _, _)
numbered(rows, u, lo, hi) ==
    IF lo = hi
    THEN LET row == [user_id |-> u.id, date |-> lo]
             n == IF row \in DOMAIN rows THEN rows[row] ELSE 0
         IN  [items |-> IF n > 0 THEN << <<lo, n>> >> ELSE << >>, days |-> n]
    ELSE LET mid == (lo + hi) \div 2
         IN  With(numbered(rows, u, lo, mid), LAMBDA older :
             With(numbered(rows, u, mid + 1, hi), LAMBDA newer :
                  numbered_join(older, newer)))

\* reversed that leaves the order as it is.
reversed_not(s) == s

reversed(s) == [i \in 1..Len(s) |-> s[Len(s) + 1 - i]]

presence_180(P, u, at) ==
    LET oldest_date_180 == at - 179
        rows == Where(P, LAMBDA r : /\ r.date >= oldest_date_180
                                    /\ r.date <= at
                                    /\ r.user_id = u.id)
    IN  With(rows, LAMBDA result_proxy :
             <<oldest_date_180,
               reversed(numbered(result_proxy, u, oldest_date_180, at).items)>>)

\* print_histogram_180_days: the line printed for each date of start .. finish.
print_histogram_180_days(P, u, start, finish) ==
    [test_date \in start..finish |->
        <<IF present(P, u, test_date) THEN "1" ELSE "0",
          presence_count_180(P, u, test_date)>>]

\* ------------------------------------------------------------------------
\* add_trip.  The loop visits each date of arrival .. departure once, and the
\* row it inserts for a date is read by no later iteration (a later iteration
\* selects another date), so every iteration's SELECT gives what it gives on
\* the table P the call started with: the loop is written as one step over
\* the dates it visits.

\* The test of the result proxy in place of its first row: a proxy is true
\* whatever it holds, so no row is ever found.
presence_exists_proxy(P, u, presence_date) == FALSE

\* Does a presence row exist for this date?
presence_exists(P, u, presence_date) ==
    DOMAIN Where(P, LAMBDA r : r.date = presence_date /\ r.user_id = u.id) # {}

\* add_trip whose loop stops before the departure date.
add_trip_before_departure(P, u, arrival, departure) ==
    LET inserted == {presence_date \in arrival..(departure - 1) :
                        ~presence_exists(P, u, presence_date)}
        rows == {[user_id |-> u.id, date |-> d] : d \in inserted}
    IN  [presence |-> P (+) SetToBag(rows), num_days |-> Cardinality(inserted)]

add_trip(P, u, arrival, departure) ==
    LET inserted == {presence_date \in arrival..departure :
                        ~presence_exists(P, u, presence_date)}
        rows == {[user_id |-> u.id, date |-> d] : d \in inserted}
    IN  [presence |-> P (+) SetToBag(rows), num_days |-> Cardinality(inserted)]

\* ------------------------------------------------------------------------
\* get_or_add_user.  The user table is a set of rows [id, username] with a
\* primary key id and a unique username.

select_user(U, username) ==
    IF \E r \in U : r.username = username
    THEN CHOOSE r \in U : r.username = username
    ELSE None

next_id(U) == IF U = {} THEN 1 ELSE 1 + CHOOSE n \in {r.id : r \in U} :
                                          \A r \in U : r.id <= n

\* INSERT INTO user: the unique constraint on username refuses a second row
\* of the same name.
insert_user(U, username) ==
    IF \E r \in U : r.username = username
    THEN [status |-> "IntegrityError", user |-> U]
    ELSE [status |-> "ok",
          user |-> U \cup {[id |-> next_id(U), username |-> username]}]

get_or_add_user(U, username) ==
    LET found == select_user(U, username)
    IN  IF found # None
        THEN [status |-> "ok", user |-> U, row |-> found]
        ELSE LET ins == insert_user(U, "alan.christie")
                 again == select_user(ins.user, username)
             IN  IF ins.status # "ok"
                 THEN [status |-> ins.status, user |-> ins.user, row |-> None]
                 ELSE IF again # None
                      THEN [status |-> "ok", user |-> ins.user, row |-> again]
                      ELSE [status |-> "AssertionError", user |-> ins.user,
                            row |-> None]

\* ------------------------------------------------------------------------
\* find_start_date, in three parts: what precedes the loop, the loop's test
\* of one finish date, and the value returned for the finish date found.

find_start_date_init(P, u) ==
    LET last_record == get_start(P, u)
    IN  IF last_record = None
        THEN [status |-> "AttributeError"]
        ELSE LET start_date == last_record.date + ONE_DAY
             IN  [status |-> "ok", start_date |-> start_date,
                  finish_date |-> start_date + MAX_DURATION_180_DAYS]

\* The test of the loop without the days of the new trip.
find_start_date_found_no_duration(P, u, duration, finish_date) ==
    presence_count_180(P, u, finish_date) <= MAX_DURATION_180

\* The test of the loop with < for <=.
find_start_date_found_strict(P, u, duration, finish_date) ==
    presence_count_180(P, u, finish_date) + duration < MAX_DURATION_180

find_start_date_found(P, u, duration, finish_date) ==
    LET presence_count_at_finish ==
            presence_count_180(P, u, finish_date) + duration
    IN  presence_count_at_finish <= MAX_DURATION_180

find_start_date_return(finish_date, duration) ==
    finish_date - duration * ONE_DAY + ONE_DAY

\* ------------------------------------------------------------------------
\* main, up to the call of find_start_date.  args is the argparse namespace,
\* today the value of date.today().  The result tells how the command ended
\* ("usage": parser.error, an exception's name, "ok": returned, "scan": it
\* goes on into find_start_date's loop) and the tables it leaves.

main_end(status, message, U, P) ==
    [status |-> status, message |-> message, user |-> U, presence |-> P,
     num_days_added |-> 0, presence_count_today |-> None, out |-> None]

main_query(U, t, u, args, today) ==
    LET next_trip_duration == IF args.trip_duration # None
                              THEN args.trip_duration.some ELSE 0
        presence_count_today == presence_count_180(t.presence, u, today)
        end(status, out) ==
            [status |-> status, message |-> "", user |-> U,
             presence |-> t.presence, num_days_added |-> t.num_days,
             presence_count_today |-> Some(presence_count_today), out |-> out]
    IN  IF args.spent
        THEN end("ok", Some(presence_180(t.presence, u, today)))
        ELSE IF next_trip_duration # 0
             THEN With(find_start_date_init(t.presence, u), LAMBDA i :
                       IF i.status = "ok" THEN end("scan", Some(i))
                                          ELSE end(i.status, None))
             ELSE end("ok", None)

main_trip(U, P, u, args, today) ==
    With(IF args.arrival # None
         THEN add_trip(P, u, args.arrival.some, args.departure.some)
         ELSE [presence |-> P, num_days |-> 0],
         LAMBDA t : main_query(U, t, u, args, today))

main(U, P, args, today) ==
    IF args.trip_duration # None /\ args.spent
    THEN main_end("usage", "Cannot use --spent and --trip-duration", U, P)
    ELSE
    With(get_or_add_user(U, args.username), LAMBDA g :
        IF g.status # "ok"
        THEN main_end(g.status, "", g.user, P)
        ELSE IF \/ args.arrival # None /\ args.departure = None
                \/ args.arrival = None /\ args.departure # None
        THEN main_end("usage", "Arrival and Departure are mutually inclusive",
                      g.user, P)
        ELSE IF args.arrival # None /\ args.arrival.some > args.departure.some
        THEN main_end("usage", "Arrival cannot be after Departure", g.user, P)
        ELSE IF args.histogram_180
        THEN IF args.arrival = None \/ args.departure = None
             THEN main_end("usage", "Must provide an Arrival and Departure to plot",
                           g.user, P)
             ELSE [main_end("ok", "", g.user, P) EXCEPT
                     !.out = Some(print_histogram_180_days(
                                 P, g.row, args.arrival.some, args.departure.some))]
        ELSE IF args.arrival = None /\ args.trip_duration = None /\ ~args.spent
        THEN main_end("usage",
                      "Must provide an Arrival and Departure, Trip Duration or Spent",
                      g.user, P)
        ELSE main_trip(g.user, P, g.row, args, today))

\* ------------------------------------------------------------------------
\* The inputs.

Usernames == {"alan.christie", "bob"}

Arrivals == {i * DateStep : i \in 0..MaxArrival}

TripLengths == {DateStep + 2, MAX_DURATION_180}

\* The trip durations find_start_date is asked about.
Durations == {1, 2, 45, MAX_DURATION_180 - 1, MAX_DURATION_180}

\* The dates the 180 days are counted back from.
Ats == {DateStep} \cup {i * DateStep + 179 : i \in 0..(MaxArrival + 1)}

\* date.today().
Today == (MaxArrival + 3) * DateStep

\* The command lines of main: the namespace argparse makes of each.
Args(username, trip_duration, arrival, departure, spent, histogram_180) ==
    [username |-> username, trip_duration |-> trip_duration,
     arrival |-> arrival, departure |-> departure, spent |-> spent,
     histogram_180 |-> histogram_180]

CommandLines ==
    LET me == "alan.christie"
        a == Some(DateStep)
        d == Some(2 * DateStep)
        t == Some(MAX_DURATION_180)
    IN  { Args(me, None, None, None, FALSE, FALSE),
          Args(me, t, None, None, TRUE, FALSE),
          Args(me, None, a, None, FALSE, FALSE),
          Args(me, None, None, d, FALSE, FALSE),
          Args(me, None, a, Some(0), FALSE, FALSE),
          Args(me, None, None, None, FALSE, TRUE),
          Args(me, None, a, d, FALSE, TRUE),
          Args(me, None, a, d, FALSE, FALSE),
          Args(me, None, None, None, TRUE, FALSE),
          Args(me, None, a, d, TRUE, FALSE),
          Args(me, t, None, None, FALSE, FALSE),
          Args(me, Some(1), None, None, FALSE, FALSE),
          Args(me, t, a, d, FALSE, FALSE),
          Args("bob", None, None, None, FALSE, FALSE),
          Args("bob", t, None, None, TRUE, FALSE),
          Args("bob", None, a, d, FALSE, FALSE) }

\* ------------------------------------------------------------------------
\* State.

NoCall == [op |-> "none"]

Init ==
    /\ user = {}
    /\ presence = EmptyBag
    /\ pc = "idle"
    /\ frame = None
    /\ last = NoCall

\* add_trip called with a row of the user table.
AddTrip ==
    /\ pc = "idle"
    /\ \E u \in user, arrival \in Arrivals, n \in TripLengths :
       \E r \in {add_trip(presence, u, arrival, arrival + n - 1)} :
         LET departure == arrival + n - 1
         IN  /\ BagCardinality(presence) + n <= MaxRows
             /\ presence' = r.presence
             /\ last' = [op |-> "add_trip", status |-> "ok", user |-> u,
                         arrival |-> arrival, departure |-> departure,
                         result |-> r.num_days,
                         repeated |-> /\ last.op = "add_trip"
                                      /\ last.user = u
                                      /\ last.arrival = arrival
                                      /\ last.departure = departure,
                         pbefore |-> presence, ubefore |-> user]
    /\ UNCHANGED <<user, pc, frame>>

GetOrAddUser ==
    /\ pc = "idle"
    /\ \E username \in Usernames :
       \E r \in {get_or_add_user(user, username)} :
             /\ user' = r.user
             /\ last' = [op |-> "get_or_add_user", status |-> r.status,
                         username |-> username, result |-> r.row,
                         repeated |-> /\ last.op = "get_or_add_user"
                                      /\ last.username = username,
                         previous |-> IF last.op = "get_or_add_user"
                                      THEN last.result ELSE None,
                         pbefore |-> presence, ubefore |-> user]
    /\ UNCHANGED <<presence, pc, frame>>

PresenceCount ==
    /\ pc = "idle"
    /\ \E u \in user, at \in Ats :
         last' = [op |-> "presence_count_180", status |-> "ok", user |-> u,
                  at |-> at, result |-> presence_count_180(presence, u, at)]
    /\ UNCHANGED <<user, presence, pc, frame>>

Presence180 ==
    /\ pc = "idle"
    /\ \E u \in user, at \in Ats :
         last' = [op |-> "presence_180", status |-> "ok", user |-> u,
                  at |-> at, result |-> presence_180(presence, u, at)]
    /\ UNCHANGED <<user, presence, pc, frame>>

\* The record of a call of find_start_date, by main or by another caller,
\* while it runs.
Running(op, u, duration, args, i, P, U) ==
    [op |-> op, status |-> "running", user |-> u, duration |-> duration,
     args |-> args, start_date |-> i.start_date, finish_date |-> None,
     result |-> None, pbefore |-> P, ubefore |-> U]

\* find_start_date, up to its loop.
FindStartDate ==
    /\ pc = "idle"
    /\ \E u \in user, duration \in Durations :
       \E i \in {find_start_date_init(presence, u)} :
             IF i.status = "ok"
             THEN /\ pc' = "scan"
                  /\ frame' = [user |-> u, duration |-> duration,
                               finish_date |-> i.finish_date]
                  /\ last' = Running("find_start_date", u, duration, None, i,
                                     presence, user)
             ELSE /\ last' = [op |-> "find_start_date", status |-> i.status,
                              user |-> u, duration |-> duration,
                              args |-> None, pbefore |-> presence,
                              ubefore |-> user]
                  /\ UNCHANGED <<pc, frame>>
    /\ UNCHANGED <<user, presence>>

\* One iteration of find_start_date's loop; the last one returns.
ScanStep ==
    /\ pc = "scan"
    /\ IF find_start_date_found(presence, frame.user, frame.duration,
                                frame.finish_date)
       THEN /\ pc' = "idle"
            /\ frame' = None
            /\ last' = [last EXCEPT
                          !.status = "ok",
                          !.finish_date = Some(frame.finish_date),
                          !.result = Some(find_start_date_return(
                                             frame.finish_date, frame.duration))]
       ELSE /\ frame' = [frame EXCEPT !.finish_date = @ + ONE_DAY]
            /\ UNCHANGED <<pc, last>>
    /\ UNCHANGED <<user, presence>>

Main ==
    /\ pc = "idle"
    /\ \E args \in CommandLines :
       \E r \in {main(user, presence, args, Today)} :
         LET u == select_user(r.user, args.username)
         IN  /\ IF args.arrival # None /\ args.departure # None
                THEN BagCardinality(presence)
                       + (args.departure.some - args.arrival.some + 1) <= MaxRows
                ELSE TRUE
             /\ user' = r.user
             /\ presence' = r.presence
             /\ IF r.status = "scan"
                THEN /\ pc' = "scan"
                     /\ frame' = [user |-> u,
                                  duration |-> args.trip_duration.some,
                                  finish_date |-> r.out.some.finish_date]
                     /\ last' = Running("main", u, args.trip_duration.some,
                                        args, r.out.some, presence, user)
                ELSE /\ last' = [op |-> "main", status |-> r.status,
                                 user |-> u,
                                 message |-> r.message, args |-> args,
                                 num_days_added |-> r.num_days_added,
                                 presence_count_today |-> r.presence_count_today,
                                 out |-> r.out,
                                 pbefore |-> presence, ubefore |-> user]
                     /\ UNCHANGED <<pc, frame>>

Next ==
    \/ AddTrip
    \/ GetOrAddUser
    \/ PresenceCount
    \/ Presence180
    \/ FindStartDate
    \/ ScanStep
    \/ Main

Spec == Init /\ [][Next]_vars

\* The loop of find_start_date is not suspended: it runs on while it can.
FairSpec == Spec /\ WF_vars(ScanStep)


\* ------------------------------------------------------------------------
\* What the properties below speak of.

\* A call of find_start_date has returned.
Found == /\ last.op \in {"find_start_date", "main"}
         /\ last.status = "ok"
         /\ "finish_date" \in DOMAIN last

\* The user's most recent presence date when that call began.
LastPresence == last.start_date - ONE_DAY

\* The dates of at - 179 .. at on which the user is present.
PresentDates(P, u, at) == {d \in (at - 179)..at : present(P, u, d)}

\* With the trip start .. start + duration - 1 recorded in P, the 180-day
\* count at every day of the trip is at most 90.
LegalTrip(P, u, start, duration) ==
    \A after \in {add_trip(P, u, start, start + duration - 1).presence} :
       \A d \in start..(start + duration - 1) :
          presence_count_180(after, u, d) <= MAX_DURATION_180

\* ------------------------------------------------------------------------
\* C1: when find_start_date returns S for a user who has presence rows and a
\* duration of 1 .. 90, then with the trip S .. S + duration - 1 recorded the
\* 180-day presence count at every day of that trip, its last day included,
\* is at most 90.
C1_Legality ==
    Found => /\ last.duration \in 1..MAX_DURATION_180
             /\ LegalTrip(presence, last.user, last.result.some, last.duration)

\* The search had to move the finish date on, and returned.
C1_Witness ==
    /\ Found
    /\ last.finish_date.some > last.start_date + MAX_DURATION_180_DAYS
    /\ presence_count_180(presence, last.user, last.finish_date.some) > 0

\* C2 (as claimed): find_start_date returns the earliest legal start: no date
\* after the most recent presence and before the returned date is the start
\* of a trip that keeps every count at most 90, so a trip that fits with no
\* wait starts the day after the last recorded presence.
C2_Earliest ==
    Found =>
       /\ LegalTrip(presence, last.user, LastPresence + ONE_DAY, last.duration)
            => last.result.some = LastPresence + ONE_DAY
       /\ \A s \in (LastPresence + 1)..(last.result.some - 1) :
             ~LegalTrip(presence, last.user, s, last.duration)

\* C3 (as claimed): for a user with no presence rows the trip query, direct
\* or through main's -t, completes and returns today's date.
TripQuery ==
    \/ last.op = "find_start_date"
    \/ /\ last.op = "main"
       /\ last.args.trip_duration # None
       /\ ~last.args.spent
       /\ last.status \in {"ok", "running", "AttributeError"}

C3_EmptyLedger ==
    (TripQuery /\ last.status # "running" /\ get_start(presence, last.user) = None)
       => /\ last.status = "ok"
          /\ last.result = Some(Today)

\* C4: a second call of add_trip with the same user, arrival and departure
\* (arrival <= departure) returns 0, inserts no row and leaves the 180-day
\* count at every date as it was.
C4_Idempotence ==
    (last.op = "add_trip" /\ last.repeated) =>
       /\ last.result = 0
       /\ presence = last.pbefore
       /\ \A at \in Ats : presence_count_180(presence, last.user, at)
                            = presence_count_180(last.pbefore, last.user, at)

\* The same trip was recorded twice in a row.
C4_Witness ==
    /\ last.op = "add_trip"
    /\ last.repeated
    /\ last.arrival < last.departure
    /\ \A d \in last.arrival..last.departure : present(presence, last.user, d)

\* C5: add_trip (arrival <= departure) returns the number of days of
\* arrival .. departure on which the user was not present before the call,
\* departure - arrival + 1 on an empty table; after it the user is present on
\* every day of the range, and the rows of other dates and of other users are
\* as before.
C5_AddTrip ==
    (last.op = "add_trip" /\ last.arrival <= last.departure) =>
       LET range == last.arrival..last.departure
           outside(r) == r.user_id # last.user.id \/ r.date \notin range
       IN  /\ last.result = Cardinality({d \in range :
                                ~present(last.pbefore, last.user, d)})
           /\ last.pbefore = EmptyBag =>
                 last.result = last.departure - last.arrival + 1
           /\ \A d \in range : present(presence, last.user, d)
           /\ Where(presence, outside) = Where(last.pbefore, outside)
           /\ \A d \in range :
                 present(last.pbefore, last.user, d) =>
                    CopiesIn([user_id |-> last.user.id, date |-> d], presence)
                      = CopiesIn([user_id |-> last.user.id, date |-> d],
                                 last.pbefore)

\* A trip that overlaps the recorded ones in part, with rows outside it.
C5_Witness ==
    /\ last.op = "add_trip"
    /\ last.result > 0
    /\ last.result < last.departure - last.arrival + 1
    /\ \E r \in DOMAIN last.pbefore : r.date < last.arrival

\* C6: in every state reached by calls of add_trip, overlapping and repeated
\* ones included, presence_count_180 at a date A is the number of dates of
\* A - 179 .. A on which present is true, so it lies in 0 .. 180; and there
\* are no two rows of one user and date.
C6_WindowConsistency ==
    /\ \A r \in DOMAIN presence : presence[r] = 1
    /\ last.op = "presence_count_180" =>
          /\ last.result = Cardinality(PresentDates(presence, last.user, last.at))
          /\ last.result \in 0..180

\* A count whose window begins inside a recorded trip: the user is present
\* on the first day of the window and on the day before it.
C6_Witness ==
    /\ last.op = "presence_count_180"
    /\ last.result > 0
    /\ last.result < BagCardinality(presence)
    /\ present(presence, last.user, last.at - 179)
    /\ present(presence, last.user, last.at - 179 - ONE_DAY)

\* C7 (as claimed): get_or_add_user succeeds for every name and returns a
\* row of that name, inserting a row only when the name has none; a second
\* call with the same name returns the same row and adds none.
C7_GetOrAddUser ==
    last.op = "get_or_add_user" =>
       /\ last.status = "ok"
       /\ last.result \in user
       /\ last.result.username = last.username
       /\ (\E r \in last.ubefore : r.username = last.username)
             => user = last.ubefore
       /\ last.repeated => (user = last.ubefore /\ last.result = last.previous)

\* C8 (as claimed): a run of main that ends in a usage error has performed
\* no operation on the tables.
C8_UsageBeforeCore ==
    (last.op = "main" /\ last.status = "usage") =>
       /\ user = last.ubefore
       /\ presence = last.pbefore

\* C9: presence_180 at a date returns the window start at - 179 and the
\* present dates of at - 179 .. at, most recent first, each with its rank
\* among them counted from the oldest: consecutive entries differ by 1 in
\* rank, the last has rank 1 and the first has rank presence_count_180.
C9_Histogram ==
    last.op = "presence_180" =>
       LET oldest == last.result[1]
           items == last.result[2]
           dates == PresentDates(presence, last.user, last.at)
       IN  /\ oldest = last.at - 179
           /\ {items[i][1] : i \in 1..Len(items)} = dates
           /\ Len(items) = Cardinality(dates)
           /\ \A i \in 1..(Len(items) - 1) :
                 /\ items[i][1] > items[i + 1][1]
                 /\ items[i][2] = items[i + 1][2] + 1
           /\ \A i \in 1..Len(items) :
                 items[i][2] = Cardinality({d \in dates : d <= items[i][1]})
           /\ Len(items) > 0 =>
                 /\ items[Len(items)][2] = 1
                 /\ items[1][2] = presence_count_180(presence, last.user, last.at)

\* A histogram of two visits with a gap between them, and rows before the
\* window.
C9_Witness ==
    /\ last.op = "presence_180"
    /\ \E i \in 1..(Len(last.result[2]) - 1) :
          last.result[2][i][1] - last.result[2][i + 1][1] > ONE_DAY
    /\ \E r \in DOMAIN presence : r.date < last.result[1]

\* C10: the search of find_start_date ends, and no finish date it tries, the
\* one it accepts included, is more than 180 days after the user's most
\* recent presence date, so it moves on fewer than 180 times.
C10_Bound ==
    /\ pc = "scan" =>
          frame.finish_date <= get_start(presence, frame.user).date + 180
    /\ Found =>
          /\ last.finish_date.some <= LastPresence + 180
          /\ last.finish_date.some
               - (last.start_date + MAX_DURATION_180_DAYS) < 180

C10_Termination == []C10_Bound /\ ((pc = "scan") ~> (pc = "idle"))

\* The search that ends exactly 180 days after the last presence.
C10_Witness ==
    /\ Found
    /\ last.finish_date.some = LastPresence + 180

====
